---- MODULE Spec2Model ----
(***************************************************************************)
(* Model of eval/generate_tax_docs.py: the five form layout routines       *)
(* (draw_w2, draw_1099nec, draw_1099int, draw_1099div, draw_1098) and the  *)
(* driver main() that renders ten literal requests into docs/.             *)
(*                                                                         *)
(* Conventions                                                             *)
(*  - money is an integer number of cents (75432.00 is 7543200);           *)
(*  - names and filenames are sequences of one-character strings, so that  *)
(*    slugs, prefixes and separators can be inspected; Str turns them into *)
(*    the text that is drawn;                                              *)
(*  - a canvas is the reportlab graphics state the routines touch (font,   *)
(*    fill colour, stroke colour, line width) plus the list of things      *)
(*    drawn so far.  Page coordinates are abstracted to the form box a     *)
(*    string belongs to (the source's "# Box ..." comments), its role      *)
(*    (title, caption, value, footer) and the argument it prints.          *)
(***************************************************************************)
EXTENDS Integers, Sequences, FiniteSets, TLC

VARIABLES
    pc,         \* where the program is: a step of main(), or a direct call
    k,          \* main(): number of the request being processed (1..10)
    filename,   \* main(): the local variable filename
    c,          \* the canvas being drawn on
    documents,  \* main(): the manifest list
    console,    \* lines printed so far by this run
    returned,   \* <<>> until main() returns, then <<the returned list>>
    fs,         \* files under the output directory: path -> page written
    dirState,   \* "absent", "dir", or "file" (a non-directory named docs)
    saved,      \* paths whose c.save() completed in this run, in order
    run,        \* number of the current run of the script
    prev,       \* how the previous run ended, and the directory it left
    call        \* arguments of a direct call of a layout routine

vars == <<pc, k, filename, c, documents, console, returned, fs, dirState,
          saved, run, prev, call>>

(***************************************************************************)
(* Bounds                                                                  *)
(***************************************************************************)
\* number of times the script is run one after another on the same directory
MaxRuns == 2

(***************************************************************************)
(* Text                                                                    *)
(***************************************************************************)
\* the text of a character sequence
RECURSIVE Str(_)
Str(s) == IF s = <<>> THEN "" ELSE Head(s) \o Str(Tail(s))

\* f"{OUTPUT_DIR}/{filename}"
OUTPUT_DIR == <<"d","o","c","s">>
PathOf(name) == OUTPUT_DIR \o <<"/">> \o name

(***************************************************************************)
(* Money: f"${x:,.2f}"                                                     *)
(***************************************************************************)
Pad2(n) == IF n < 10 THEN "0" \o ToString(n) ELSE ToString(n)
Pad3(n) == IF n < 10 THEN "00" \o ToString(n)
           ELSE IF n < 100 THEN "0" \o ToString(n) ELSE ToString(n)

\* the ',' option: groups of three digits
RECURSIVE Grouped(_)
Grouped(n) == IF n < 1000 THEN ToString(n)
              ELSE Grouped(n \div 1000) \o "," \o Pad3(n % 1000)

\* f"${x:,.2f}" of a non-negative amount of x cents
FormatMoney(cents) == "$" \o Grouped(cents \div 100) \o "." \o Pad2(cents % 100)

\* The routines multiply in binary floating point and '.2f' rounds the double
\* that results.  Away from a half cent the result is the nearest cent.  On
\* an exact half cent the double decides: these are the products, among the
\* amounts used here, whose double lies below the half cent (92150.00 *
\* 0.0145 is 1336.175 in decimal and prints 1,336.17); the other half-cent
\* products used here print rounded up (48750.00 * 0.0145 prints 706.88).
HalfCentBelow == { <<9215000, 145, 10000>> }

\* cents printed for amount * (num / den)
Scaled(amount, num, den) ==
    LET p == amount * num
        q == p \div den
        r == p % den
    IN  IF 2 * r < den THEN q
        ELSE IF 2 * r > den THEN q + 1
        ELSE IF <<amount, num, den>> \in HalfCentBelow THEN q ELSE q + 1

(***************************************************************************)
(* reportlab canvas                                                        *)
(***************************************************************************)
\* canvas.Canvas(path, pagesize=letter): nothing is written until save()
Canvas(path) ==
    [ filename |-> path, font |-> "Helvetica", size |-> 12,
      fill |-> "black", stroke |-> "black", lineWidth |-> 10, ops |-> <<>>,
      fillSets |-> <<>> ]

setFont(cv, name, size) == [cv EXCEPT !.font = name, !.size = size]
\* fillSets: the colours given to setFillColor so far, in call order
setFillColor(cv, colour) ==
    [cv EXCEPT !.fill = colour, !.fillSets = Append(@, colour)]
setStrokeColor(cv, colour) == [cv EXCEPT !.stroke = colour]
\* line widths in tenths of a point
setLineWidth(cv, w) == [cv EXCEPT !.lineWidth = w]

Drawn(cv, op, box, role, arg, text) ==
    [cv EXCEPT !.ops = Append(@,
        [ op |-> op, box |-> box, role |-> role, arg |-> arg, text |-> text,
          font |-> cv.font, size |-> cv.size, fill |-> cv.fill,
          stroke |-> cv.stroke, lineWidth |-> cv.lineWidth ])]

drawString(cv, box, role, arg, text) == Drawn(cv, "drawString", box, role, arg, text)
rect(cv, box) == Drawn(cv, "rect", box, "shape", "", "")
line(cv, box) == Drawn(cv, "line", box, "shape", "", "")

\* reportlab.lib.colors: grey level of the colours the script imports (0..255)
GreyLevel == [ black |-> 0, gray |-> 128, lightgrey |-> 211 ]

(***************************************************************************)
(* draw_w2                                                                 *)
(***************************************************************************)
\* wages * 0.22, wages * 0.062, wages * 0.0145 as printed
fed_tax(wages) == Scaled(wages, 22, 100)
ss_tax(wages) == Scaled(wages, 62, 1000)
\* 1.45% written as 0.145
med_tax_tenfold(wages) == Scaled(wages, 145, 1000)

med_tax(wages) == Scaled(wages, 145, 10000)

\* title, form border, six grid lines, vertical divider
W2Frame(cv, year) ==
    LET c1 == setFont(cv, "Helvetica-Bold", 16)
        c2 == drawString(c1, "title", "title", "year",
                         "Form W-2 Wage and Tax Statement " \o Str(year))
        c3 == setLineWidth(setStrokeColor(c2, "black"), 20)
        c4 == rect(c3, "border")
        c5 == setLineWidth(c4, 5)
        c6 == line(line(line(line(line(line(c5, "grid"), "grid"), "grid"),
                   "grid"), "grid"), "grid")
        c7 == line(c6, "divider")
    IN  setFont(c7, "Helvetica", 8)

\* Box a - Employee's SSN
W2BoxA(cv, employee_ssn, is_blank, low_quality) ==
    LET c1 == drawString(cv, "a", "caption", "", "a Employee's social security number")
        c2 == setFont(c1, "Helvetica-Bold", 11)
        c3 == IF low_quality THEN setFillColor(c2, "lightgrey") ELSE c2
        c4 == drawString(c3, "a", "value", "employee_ssn", employee_ssn)
    IN  IF is_blank THEN c1 ELSE setFillColor(c4, "black")

\* Box b - Employer ID
W2BoxB(cv, ein, is_blank) ==
    LET c1 == setFont(cv, "Helvetica", 8)
        c2 == drawString(c1, "b", "caption", "", "b Employer identification number (EIN)")
        c3 == setFont(c2, "Helvetica-Bold", 11)
    IN  IF is_blank THEN c2 ELSE drawString(c3, "b", "value", "ein", ein)

\* Box c without the c.setFillColor(black) after the employer name
W2BoxCNoReset(cv, employer_name, is_blank, low_quality) ==
    LET c1 == setFont(cv, "Helvetica", 8)
        c2 == drawString(c1, "c", "caption", "", "c Employer's name, address, and ZIP code")
        c3 == setFont(c2, "Helvetica-Bold", 11)
        c4 == IF low_quality THEN setFillColor(c3, "gray") ELSE c3
        c5 == drawString(c4, "c", "value", "employer_name", Str(employer_name))
        c6 == setFont(c5, "Helvetica", 10)
        c7 == drawString(c6, "c", "value", "", "123 Business Ave")
    IN  IF is_blank THEN c2 ELSE drawString(c7, "c", "value", "", "Anytown, ST 12345")

\* Box c - Employer name and address
W2BoxC(cv, employer_name, is_blank, low_quality) ==
    LET c1 == setFont(cv, "Helvetica", 8)
        c2 == drawString(c1, "c", "caption", "", "c Employer's name, address, and ZIP code")
        c3 == setFont(c2, "Helvetica-Bold", 11)
        c4 == IF low_quality THEN setFillColor(c3, "gray") ELSE c3
        c5 == drawString(c4, "c", "value", "employer_name", Str(employer_name))
        c6 == setFont(setFillColor(c5, "black"), "Helvetica", 10)
        c7 == drawString(c6, "c", "value", "", "123 Business Ave")
    IN  IF is_blank THEN c2 ELSE drawString(c7, "c", "value", "", "Anytown, ST 12345")

\* Box e - Employee name
W2BoxE(cv, employee_name, is_blank) ==
    LET c1 == setFont(cv, "Helvetica", 8)
        c2 == drawString(c1, "e", "caption", "",
                         "e Employee's first name and initial    Last name")
        c3 == setFont(c2, "Helvetica-Bold", 11)
    IN  IF is_blank THEN c2
        ELSE drawString(c3, "e", "value", "employee_name", employee_name)

\* Box f - Employee address
W2BoxF(cv, is_blank) ==
    LET c1 == setFont(cv, "Helvetica", 8)
        c2 == drawString(c1, "f", "caption", "", "f Employee's address and ZIP code")
        c3 == setFont(c2, "Helvetica", 10)
    IN  IF is_blank THEN c2
        ELSE drawString(c3, "f", "value", "", "456 Home Street, Hometown, ST 67890")

\* Box 1 drawn without looking at low_quality
W2Box1NeverFaded(cv, wages, is_blank, low_quality) ==
    LET c1 == setFont(cv, "Helvetica", 8)
        c2 == drawString(c1, "1", "caption", "", "1 Wages, tips, other compensation")
        c3 == setFont(c2, "Helvetica-Bold", 12)
        c5 == drawString(c3, "1", "value", "wages", FormatMoney(wages))
    IN  IF is_blank THEN c2 ELSE setFillColor(c5, "black")

\* Box 1 - Wages
W2Box1(cv, wages, is_blank, low_quality) ==
    LET c1 == setFont(cv, "Helvetica", 8)
        c2 == drawString(c1, "1", "caption", "", "1 Wages, tips, other compensation")
        c3 == setFont(c2, "Helvetica-Bold", 12)
        c4 == IF low_quality THEN setFillColor(c3, "lightgrey") ELSE c3
        c5 == drawString(c4, "1", "value", "wages", FormatMoney(wages))
    IN  IF is_blank THEN c2 ELSE setFillColor(c5, "black")

\* the amount drawn without the "if not is_blank:" guard
W2AmountUnguarded(cv, box, caption, arg, cents, is_blank) ==
    LET c1 == setFont(cv, "Helvetica", 8)
        c2 == drawString(c1, box, "caption", "", caption)
        c3 == setFont(c2, "Helvetica-Bold", 12)
    IN  drawString(c3, box, "value", arg, FormatMoney(cents))

\* Boxes 2 to 6: a caption, then (unless blank) one amount in bold 12
W2Amount(cv, box, caption, arg, cents, is_blank) ==
    LET c1 == setFont(cv, "Helvetica", 8)
        c2 == drawString(c1, box, "caption", "", caption)
        c3 == setFont(c2, "Helvetica-Bold", 12)
    IN  IF is_blank THEN c2
        ELSE drawString(c3, box, "value", arg, FormatMoney(cents))

W2Box2(cv, wages, is_blank) ==
    W2Amount(cv, "2", "2 Federal income tax withheld", "fed_tax",
             IF is_blank THEN 0 ELSE fed_tax(wages), is_blank)
W2Box3(cv, wages, is_blank) ==
    W2Amount(cv, "3", "3 Social security wages", "wages", wages, is_blank)
W2Box4(cv, wages, is_blank) ==
    W2Amount(cv, "4", "4 Social security tax withheld", "ss_tax",
             IF is_blank THEN 0 ELSE ss_tax(wages), is_blank)
W2Box5(cv, wages, is_blank) ==
    W2Amount(cv, "5", "5 Medicare wages and tips", "wages", wages, is_blank)
W2Box6(cv, wages, is_blank) ==
    W2Amount(cv, "6", "6 Medicare tax withheld", "med_tax",
             IF is_blank THEN 0 ELSE med_tax(wages), is_blank)

W2Footer(cv, year) ==
    LET c1 == setFont(cv, "Helvetica", 8)
        c2 == drawString(c1, "footer", "footer", "",
                         "Department of the Treasury - Internal Revenue Service")
    IN  drawString(c2, "footer", "footer", "year", "Form W-2 (" \o Str(year) \o ")")

draw_w2(cv, employer_name, wages, employee_name, employee_ssn, ein, year, is_blank, low_quality) ==
    LET c1 == W2Frame(cv, year)
        c2 == W2BoxA(c1, employee_ssn, is_blank, low_quality)
        c3 == W2BoxB(c2, ein, is_blank)
        c4 == W2BoxC(c3, employer_name, is_blank, low_quality)
        c5 == W2BoxE(c4, employee_name, is_blank)
        c6 == W2BoxF(c5, is_blank)
        c7 == W2Box1(c6, wages, is_blank, low_quality)
        c8 == W2Box2(c7, wages, is_blank)
        c9 == W2Box3(c8, wages, is_blank)
        c10 == W2Box4(c9, wages, is_blank)
        c11 == W2Box5(c10, wages, is_blank)
        c12 == W2Box6(c11, wages, is_blank)
    IN  W2Footer(c12, year)

(***************************************************************************)
(* draw_1099nec, draw_1099int, draw_1099div, draw_1098                     *)
(* The box called "party" is the payer's (1098: the lender's) name and     *)
(* address block, "other" the recipient's (1098: the borrower's).          *)
(***************************************************************************)
draw_1099nec(cv, payer_name, compensation, recipient_name, recipient_tin, payer_tin, year) ==
    LET
        c1 == setFont(cv, "Helvetica-Bold", 16)
        c2 == drawString(c1, "title", "title", "year",
                 "Form 1099-NEC Nonemployee Compensation " \o Str(year))
        c3 == setLineWidth(setStrokeColor(c2, "black"), 20)
        c4 == rect(c3, "border")
        c5 == rect(setLineWidth(c4, 10), "party")
        c6 == setFont(c5, "Helvetica", 8)
        c7 == drawString(c6, "party", "caption", "",
                 "PAYER'S name, street address, city or town, state or province,")
        c8 == drawString(c7, "party", "caption", "",
                 "country, ZIP or foreign postal code, and telephone no.")
        c9 == setFont(c8, "Helvetica-Bold", 11)
        c10 == drawString(c9, "party", "value", "payer_name", Str(payer_name))
        c11 == setFont(c10, "Helvetica", 10)
        c12 == drawString(c11, "party", "value", "", "789 Client Road")
        c13 == drawString(c12, "party", "value", "", "Business City, ST 11111")
        c14 == setFont(c13, "Helvetica", 8)
        c15 == drawString(c14, "party_tin", "caption", "", "PAYER'S TIN")
        c16 == setFont(c15, "Helvetica-Bold", 11)
        c17 == drawString(c16, "party_tin", "value", "payer_tin", payer_tin)
        c18 == setFont(c17, "Helvetica", 8)
        c19 == drawString(c18, "other_tin", "caption", "", "RECIPIENT'S TIN")
        c20 == setFont(c19, "Helvetica-Bold", 11)
        c21 == drawString(c20, "other_tin", "value", "recipient_tin", recipient_tin)
        c22 == setFont(c21, "Helvetica", 8)
        c23 == drawString(c22, "other", "caption", "", "RECIPIENT'S name")
        c24 == setFont(c23, "Helvetica-Bold", 11)
        c25 == drawString(c24, "other", "value", "recipient_name", recipient_name)
        c26 == setFont(c25, "Helvetica", 10)
        c27 == drawString(c26, "other", "value", "", "321 Freelance Lane")
        c28 == drawString(c27, "other", "value", "", "Worktown, ST 22222")
        c29 == rect(setLineWidth(c28, 10), "1")
        c30 == setFont(c29, "Helvetica", 8)
        c31 == drawString(c30, "1", "caption", "",
                 "1 Nonemployee compensation")
        c32 == setFont(c31, "Helvetica-Bold", 14)
        c33 == drawString(c32, "1", "value", "compensation", FormatMoney(compensation))
        c34 == rect(c33, "4")
        c35 == setFont(c34, "Helvetica", 8)
        c36 == drawString(c35, "4", "caption", "", "4 Federal income tax withheld")
        c37 == setFont(c36, "Helvetica-Bold", 12)
        c38 == drawString(c37, "4", "value", "", "$0.00")
        c39 == setFont(c38, "Helvetica", 8)
        c40 == drawString(c39, "footer", "footer", "year", "Form 1099-NEC (Rev. 1-" \o Str(year) \o ")")
    IN  drawString(c40, "footer", "footer", "",
                   "Department of the Treasury - Internal Revenue Service")

draw_1099int(cv, payer_name, interest, recipient_name, recipient_tin, payer_tin, year) ==
    LET
        c1 == setFont(cv, "Helvetica-Bold", 16)
        c2 == drawString(c1, "title", "title", "year",
                 "Form 1099-INT Interest Income " \o Str(year))
        c3 == setLineWidth(setStrokeColor(c2, "black"), 20)
        c4 == rect(c3, "border")
        c5 == rect(setLineWidth(c4, 10), "party")
        c6 == setFont(c5, "Helvetica", 8)
        c7 == drawString(c6, "party", "caption", "",
                 "PAYER'S name, street address, city, state, ZIP code")
        c8 == setFont(c7, "Helvetica-Bold", 11)
        c9 == drawString(c8, "party", "value", "payer_name", Str(payer_name))
        c10 == setFont(c9, "Helvetica", 10)
        c11 == drawString(c10, "party", "value", "", "100 Finance Boulevard")
        c12 == drawString(c11, "party", "value", "", "Banking City, ST 33333")
        c13 == setFont(c12, "Helvetica", 8)
        c14 == drawString(c13, "party_tin", "caption", "", "PAYER'S TIN")
        c15 == setFont(c14, "Helvetica-Bold", 11)
        c16 == drawString(c15, "party_tin", "value", "payer_tin", payer_tin)
        c17 == setFont(c16, "Helvetica", 8)
        c18 == drawString(c17, "other_tin", "caption", "", "RECIPIENT'S TIN")
        c19 == setFont(c18, "Helvetica-Bold", 11)
        c20 == drawString(c19, "other_tin", "value", "recipient_tin", recipient_tin)
        c21 == setFont(c20, "Helvetica", 8)
        c22 == drawString(c21, "other", "caption", "", "RECIPIENT'S name")
        c23 == setFont(c22, "Helvetica-Bold", 11)
        c24 == drawString(c23, "other", "value", "recipient_name", recipient_name)
        c25 == rect(setLineWidth(c24, 10), "1")
        c26 == setFont(c25, "Helvetica", 8)
        c27 == drawString(c26, "1", "caption", "",
                 "1 Interest income")
        c28 == setFont(c27, "Helvetica-Bold", 14)
        c29 == drawString(c28, "1", "value", "interest", FormatMoney(interest))
        c30 == rect(c29, "2")
        c31 == setFont(c30, "Helvetica", 8)
        c32 == drawString(c31, "2", "caption", "", "2 Early withdrawal penalty")
        c33 == setFont(c32, "Helvetica-Bold", 12)
        c34 == drawString(c33, "2", "value", "", "$0.00")
        c35 == setFont(c34, "Helvetica", 8)
        c36 == drawString(c35, "footer", "footer", "year", "Form 1099-INT (" \o Str(year) \o ")")
    IN  drawString(c36, "footer", "footer", "",
                   "Department of the Treasury - Internal Revenue Service")

\* dividends * 0.8 as printed
qualified(dividends) == Scaled(dividends, 8, 10)

draw_1099div(cv, payer_name, dividends, recipient_name, recipient_tin, payer_tin, year) ==
    LET
        c1 == setFont(cv, "Helvetica-Bold", 16)
        c2 == drawString(c1, "title", "title", "year",
                 "Form 1099-DIV Dividends and Distributions " \o Str(year))
        c3 == setLineWidth(setStrokeColor(c2, "black"), 20)
        c4 == rect(c3, "border")
        c5 == rect(setLineWidth(c4, 10), "party")
        c6 == setFont(c5, "Helvetica", 8)
        c7 == drawString(c6, "party", "caption", "",
                 "PAYER'S name, street address, city, state, ZIP code")
        c8 == setFont(c7, "Helvetica-Bold", 11)
        c9 == drawString(c8, "party", "value", "payer_name", Str(payer_name))
        c10 == setFont(c9, "Helvetica", 10)
        c11 == drawString(c10, "party", "value", "", "500 Investment Plaza")
        c12 == drawString(c11, "party", "value", "", "Wall Street, NY 10001")
        c13 == setFont(c12, "Helvetica", 8)
        c14 == drawString(c13, "party_tin", "caption", "", "PAYER'S TIN")
        c15 == setFont(c14, "Helvetica-Bold", 11)
        c16 == drawString(c15, "party_tin", "value", "payer_tin", payer_tin)
        c17 == setFont(c16, "Helvetica", 8)
        c18 == drawString(c17, "other_tin", "caption", "", "RECIPIENT'S TIN")
        c19 == setFont(c18, "Helvetica-Bold", 11)
        c20 == drawString(c19, "other_tin", "value", "recipient_tin", recipient_tin)
        c21 == setFont(c20, "Helvetica", 8)
        c22 == drawString(c21, "other", "caption", "", "RECIPIENT'S name")
        c23 == setFont(c22, "Helvetica-Bold", 11)
        c24 == drawString(c23, "other", "value", "recipient_name", recipient_name)
        c25 == rect(setLineWidth(c24, 10), "1a")
        c26 == setFont(c25, "Helvetica", 8)
        c27 == drawString(c26, "1a", "caption", "",
                 "1a Total ordinary dividends")
        c28 == setFont(c27, "Helvetica-Bold", 14)
        c29 == drawString(c28, "1a", "value", "dividends", FormatMoney(dividends))
        c30 == rect(c29, "1b")
        c31 == setFont(c30, "Helvetica", 8)
        c32 == drawString(c31, "1b", "caption", "", "1b Qualified dividends")
        c33 == setFont(c32, "Helvetica-Bold", 12)
        c34 == drawString(c33, "1b", "value", "qualified", FormatMoney(qualified(dividends)))
        c35 == setFont(c34, "Helvetica", 8)
        c36 == drawString(c35, "footer", "footer", "year", "Form 1099-DIV (" \o Str(year) \o ")")
    IN  drawString(c36, "footer", "footer", "",
                   "Department of the Treasury - Internal Revenue Service")

\* interest * 25 as printed
principal(interest) == Scaled(interest, 25, 1)

draw_1098(cv, lender_name, interest, borrower_name, borrower_tin, lender_tin, year) ==
    LET
        c1 == setFont(cv, "Helvetica-Bold", 16)
        c2 == drawString(c1, "title", "title", "year",
                 "Form 1098 Mortgage Interest Statement " \o Str(year))
        c3 == setLineWidth(setStrokeColor(c2, "black"), 20)
        c4 == rect(c3, "border")
        c5 == rect(setLineWidth(c4, 10), "party")
        c6 == setFont(c5, "Helvetica", 8)
        c7 == drawString(c6, "party", "caption", "",
                 "RECIPIENT'S/LENDER'S name, address, and telephone number")
        c8 == setFont(c7, "Helvetica-Bold", 11)
        c9 == drawString(c8, "party", "value", "lender_name", Str(lender_name))
        c10 == setFont(c9, "Helvetica", 10)
        c11 == drawString(c10, "party", "value", "", "200 Mortgage Way")
        c12 == drawString(c11, "party", "value", "", "Lending City, ST 44444")
        c13 == setFont(c12, "Helvetica", 8)
        c14 == drawString(c13, "party_tin", "caption", "", "RECIPIENT'S TIN")
        c15 == setFont(c14, "Helvetica-Bold", 11)
        c16 == drawString(c15, "party_tin", "value", "lender_tin", lender_tin)
        c17 == setFont(c16, "Helvetica", 8)
        c18 == drawString(c17, "other_tin", "caption", "", "PAYER'S/BORROWER'S TIN")
        c19 == setFont(c18, "Helvetica-Bold", 11)
        c20 == drawString(c19, "other_tin", "value", "borrower_tin", borrower_tin)
        c21 == setFont(c20, "Helvetica", 8)
        c22 == drawString(c21, "other", "caption", "", "PAYER'S/BORROWER'S name")
        c23 == setFont(c22, "Helvetica-Bold", 11)
        c24 == drawString(c23, "other", "value", "borrower_name", borrower_name)
        c25 == setFont(c24, "Helvetica", 10)
        c26 == drawString(c25, "other", "value", "", "456 Home Street")
        c27 == drawString(c26, "other", "value", "", "Hometown, ST 67890")
        c28 == rect(setLineWidth(c27, 10), "1")
        c29 == setFont(c28, "Helvetica", 8)
        c30 == drawString(c29, "1", "caption", "",
                 "1 Mortgage interest received from payer(s)/borrower(s)")
        c31 == setFont(c30, "Helvetica-Bold", 14)
        c32 == drawString(c31, "1", "value", "interest", FormatMoney(interest))
        c33 == rect(c32, "2")
        c34 == setFont(c33, "Helvetica", 8)
        c35 == drawString(c34, "2", "caption", "", "2 Outstanding mortgage principal")
        c36 == setFont(c35, "Helvetica-Bold", 12)
        c37 == drawString(c36, "2", "value", "principal", FormatMoney(principal(interest)))
        c38 == setFont(c37, "Helvetica", 8)
        c39 == drawString(c38, "footer", "footer", "year", "Form 1098 (" \o Str(year) \o ")")
    IN  drawString(c39, "footer", "footer", "",
                   "Department of the Treasury - Internal Revenue Service")

(***************************************************************************)
(* main(): the ten literal requests                                        *)
(* Each request is the filename literal, the routine called with its       *)
(* positional and keyword arguments, and the literal fields of the         *)
(* manifest entry appended for it (the entry's "filename" is the variable). *)
(***************************************************************************)
NoKeywords == [kw \in {} |-> TRUE]

\* 1. "w2-acme-2024.pdf": draw_w2(c, "Acme Corp", 75432.00)
Request1 ==
    [ filename |-> <<"w","2","-","a","c","m","e","-","2","0","2","4",".","p","d","f">>,
      routine  |-> "draw_w2",
      name     |-> <<"A","c","m","e"," ","C","o","r","p">>,
      amount   |-> 7543200,
      keywords |-> NoKeywords,
      fields   |-> [ type |-> <<"W","-","2">>,
                     employer |-> <<"A","c","m","e"," ","C","o","r","p">>,
                     wages |-> 7543200 ] ]

\* request 2 with two digits of the wages transposed in its manifest entry
Request2Transposed ==
    [ filename |-> <<"w","2","-","t","e","c","h","s","t","a","r","t","-","2","0","2","4",".","p","d","f">>,
      routine  |-> "draw_w2",
      name     |-> <<"T","e","c","h","S","t","a","r","t"," ","I","n","c">>,
      amount   |-> 9215000,
      keywords |-> NoKeywords,
      fields   |-> [ type |-> <<"W","-","2">>,
                     employer |-> <<"T","e","c","h","S","t","a","r","t"," ","I","n","c">>,
                     wages |-> 9251000 ] ]

\* 2. "w2-techstart-2024.pdf": draw_w2(c, "TechStart Inc", 92150.00)
Request2 ==
    [ filename |-> <<"w","2","-","t","e","c","h","s","t","a","r","t","-","2","0","2","4",".","p","d","f">>,
      routine  |-> "draw_w2",
      name     |-> <<"T","e","c","h","S","t","a","r","t"," ","I","n","c">>,
      amount   |-> 9215000,
      keywords |-> NoKeywords,
      fields   |-> [ type |-> <<"W","-","2">>,
                     employer |-> <<"T","e","c","h","S","t","a","r","t"," ","I","n","c">>,
                     wages |-> 9215000 ] ]

\* 3. "w2-globalco-2024.pdf": draw_w2(c, "GlobalCo LLC", 55000.00)
Request3 ==
    [ filename |-> <<"w","2","-","g","l","o","b","a","l","c","o","-","2","0","2","4",".","p","d","f">>,
      routine  |-> "draw_w2",
      name     |-> <<"G","l","o","b","a","l","C","o"," ","L","L","C">>,
      amount   |-> 5500000,
      keywords |-> NoKeywords,
      fields   |-> [ type |-> <<"W","-","2">>,
                     employer |-> <<"G","l","o","b","a","l","C","o"," ","L","L","C">>,
                     wages |-> 5500000 ] ]

\* 4. "1099nec-consult-2024.pdf": draw_1099nec(c, "Consulting Partners", 45000.00)
Request4 ==
    [ filename |-> <<"1","0","9","9","n","e","c","-","c","o","n","s","u","l","t","-","2","0","2","4",".","p","d","f">>,
      routine  |-> "draw_1099nec",
      name     |-> <<"C","o","n","s","u","l","t","i","n","g"," ","P","a","r","t","n","e","r","s">>,
      amount   |-> 4500000,
      keywords |-> NoKeywords,
      fields   |-> [ type |-> <<"1","0","9","9","-","N","E","C">>,
                     payer |-> <<"C","o","n","s","u","l","t","i","n","g"," ","P","a","r","t","n","e","r","s">>,
                     compensation |-> 4500000 ] ]

\* request 5 with another year in its filename than the one drawn
Request5OtherYear ==
    [ filename |-> <<"1","0","9","9","n","e","c","-","f","r","e","e","l","a","n","c","e","-","2","0","2","3",".","p","d","f">>,
      routine  |-> "draw_1099nec",
      name     |-> <<"F","r","e","e","l","a","n","c","e"," ","H","u","b">>,
      amount   |-> 2850000,
      keywords |-> NoKeywords,
      fields   |-> [ type |-> <<"1","0","9","9","-","N","E","C">>,
                     payer |-> <<"F","r","e","e","l","a","n","c","e"," ","H","u","b">>,
                     compensation |-> 2850000 ] ]

\* 5. "1099nec-freelance-2024.pdf": draw_1099nec(c, "Freelance Hub", 28500.00)
Request5 ==
    [ filename |-> <<"1","0","9","9","n","e","c","-","f","r","e","e","l","a","n","c","e","-","2","0","2","4",".","p","d","f">>,
      routine  |-> "draw_1099nec",
      name     |-> <<"F","r","e","e","l","a","n","c","e"," ","H","u","b">>,
      amount   |-> 2850000,
      keywords |-> NoKeywords,
      fields   |-> [ type |-> <<"1","0","9","9","-","N","E","C">>,
                     payer |-> <<"F","r","e","e","l","a","n","c","e"," ","H","u","b">>,
                     compensation |-> 2850000 ] ]

\* 6. "1099int-bigbank-2024.pdf": draw_1099int(c, "Big Bank", 1234.00)
Request6 ==
    [ filename |-> <<"1","0","9","9","i","n","t","-","b","i","g","b","a","n","k","-","2","0","2","4",".","p","d","f">>,
      routine  |-> "draw_1099int",
      name     |-> <<"B","i","g"," ","B","a","n","k">>,
      amount   |-> 123400,
      keywords |-> NoKeywords,
      fields   |-> [ type |-> <<"1","0","9","9","-","I","N","T">>,
                     payer |-> <<"B","i","g"," ","B","a","n","k">>,
                     interest |-> 123400 ] ]

\* 7. "1099div-invest-2024.pdf": draw_1099div(c, "Investment Corp", 5678.00)
Request7 ==
    [ filename |-> <<"1","0","9","9","d","i","v","-","i","n","v","e","s","t","-","2","0","2","4",".","p","d","f">>,
      routine  |-> "draw_1099div",
      name     |-> <<"I","n","v","e","s","t","m","e","n","t"," ","C","o","r","p">>,
      amount   |-> 567800,
      keywords |-> NoKeywords,
      fields   |-> [ type |-> <<"1","0","9","9","-","D","I","V">>,
                     payer |-> <<"I","n","v","e","s","t","m","e","n","t"," ","C","o","r","p">>,
                     dividends |-> 567800 ] ]

\* 8. "1098-mortgage-2024.pdf": draw_1098(c, "Home Loans Inc", 12345.00)
Request8 ==
    [ filename |-> <<"1","0","9","8","-","m","o","r","t","g","a","g","e","-","2","0","2","4",".","p","d","f">>,
      routine  |-> "draw_1098",
      name     |-> <<"H","o","m","e"," ","L","o","a","n","s"," ","I","n","c">>,
      amount   |-> 1234500,
      keywords |-> NoKeywords,
      fields   |-> [ type |-> <<"1","0","9","8">>,
                     lender |-> <<"H","o","m","e"," ","L","o","a","n","s"," ","I","n","c">>,
                     interest |-> 1234500 ] ]

\* 9. "w2-blank-template.pdf": draw_w2(c, "", 0, is_blank=True)
Request9 ==
    [ filename |-> <<"w","2","-","b","l","a","n","k","-","t","e","m","p","l","a","t","e",".","p","d","f">>,
      routine  |-> "draw_w2",
      name     |-> <<>>,
      amount   |-> 0,
      keywords |-> [is_blank |-> TRUE],
      fields   |-> [ type |-> <<"W","-","2">>,
                     isBlank |-> TRUE ] ]

\* 10. "w2-lowquality-2024.pdf": draw_w2(c, "Faded Corp", 48750.00, low_quality=True)
Request10 ==
    [ filename |-> <<"w","2","-","l","o","w","q","u","a","l","i","t","y","-","2","0","2","4",".","p","d","f">>,
      routine  |-> "draw_w2",
      name     |-> <<"F","a","d","e","d"," ","C","o","r","p">>,
      amount   |-> 4875000,
      keywords |-> [low_quality |-> TRUE],
      fields   |-> [ type |-> <<"W","-","2">>,
                     employer |-> <<"F","a","d","e","d"," ","C","o","r","p">>,
                     wages |-> 4875000,
                     isLowQuality |-> TRUE ] ]

\* a request pasted from the one before it with its filename left unchanged
RequestsRepeatedName ==
    << Request1, [Request2 EXCEPT !.filename = Request1.filename], Request3,
       Request4, Request5, Request6, Request7, Request8, Request9, Request10 >>

Requests == <<Request1, Request2, Request3, Request4, Request5, Request6, Request7, Request8, Request9, Request10>>

(***************************************************************************)
(* Calling a layout routine                                                *)
(***************************************************************************)
Year2024 == <<"2","0","2","4">>

\* the default values of the keyword parameters, from each def line
Defaults(routine) ==
    CASE routine = "draw_w2" ->
           [ employee_name |-> "John Q. Taxpayer", employee_ssn |-> "XXX-XX-1234",
             ein |-> "12-3456789", year |-> Year2024,
             is_blank |-> FALSE, low_quality |-> FALSE ]
      [] routine = "draw_1099nec" ->
           [ recipient_name |-> "Jane D. Contractor", recipient_tin |-> "XXX-XX-5678",
             payer_tin |-> "98-7654321", year |-> Year2024 ]
      [] routine = "draw_1099int" ->
           [ recipient_name |-> "John Q. Taxpayer", recipient_tin |-> "XXX-XX-1234",
             payer_tin |-> "11-2233445", year |-> Year2024 ]
      [] routine = "draw_1099div" ->
           [ recipient_name |-> "John Q. Taxpayer", recipient_tin |-> "XXX-XX-1234",
             payer_tin |-> "55-6677889", year |-> Year2024 ]
      [] routine = "draw_1098" ->
           [ borrower_name |-> "John Q. Taxpayer", borrower_tin |-> "XXX-XX-1234",
             lender_tin |-> "77-8899001", year |-> Year2024 ]

\* Python's binding of a call: keywords given override the defaults
Bound(routine, keywords) == keywords @@ Defaults(routine)

\* routine(cv, name, amount, **keywords)
Invoke(cv, routine, name, amount, keywords) ==
    LET a == Bound(routine, keywords)
    IN  CASE routine = "draw_w2" ->
               draw_w2(cv, name, amount, a.employee_name, a.employee_ssn, a.ein,
                       a.year, a.is_blank, a.low_quality)
          [] routine = "draw_1099nec" ->
               draw_1099nec(cv, name, amount, a.recipient_name, a.recipient_tin,
                            a.payer_tin, a.year)
          [] routine = "draw_1099int" ->
               draw_1099int(cv, name, amount, a.recipient_name, a.recipient_tin,
                            a.payer_tin, a.year)
          [] routine = "draw_1099div" ->
               draw_1099div(cv, name, amount, a.recipient_name, a.recipient_tin,
                            a.payer_tin, a.year)
          [] routine = "draw_1098" ->
               draw_1098(cv, name, amount, a.borrower_name, a.borrower_tin,
                         a.lender_tin, a.year)

(***************************************************************************)
(* State                                                                   *)
(***************************************************************************)
NoCanvas == Canvas(<<>>)
EmptyDir == [p \in {} |-> <<>>]
NoCall == [ routine |-> "main", name |-> <<>>, amount |-> 0, keywords |-> NoKeywords ]
NoPrev == [ outcome |-> "none", returned |-> <<>>, fs |-> EmptyDir ]

\* the page a stale or truncated file holds: nothing of the current drawing
NoPage == <<>>

\* a directory left by an earlier version of the script: some of the output
\* files exist already, with other content
StaleDirs ==
    { EmptyDir,
      PathOf(Request1.filename) :> NoPage,
      [ i \in { PathOf(Requests[j].filename) : j \in 1..Len(Requests) } |-> NoPage ] }

\* start of a run of the script (if __name__ == "__main__": main())
InitMain ==
    /\ pc = "makedirs"
    /\ k = 0
    /\ filename = <<>>
    /\ c = NoCanvas
    /\ documents = <<>>
    /\ console = <<>>
    /\ returned = <<>>
    /\ saved = <<>>
    /\ run = 1
    /\ prev = NoPrev
    /\ call = NoCall
    /\ \/ dirState \in {"absent", "file"} /\ fs = EmptyDir
       \/ dirState = "dir" /\ fs \in StaleDirs

(***************************************************************************)
(* main()                                                                  *)
(***************************************************************************)
\* the failure caught around the loop and the entries so far returned
AbortsReturningPartial ==
    /\ pc' = "aborted"
    /\ returned' = <<documents>>

\* an exception propagates out of main(): nothing is returned
Aborts ==
    /\ pc' = "aborted"
    /\ returned' = <<>>

\* os.makedirs(OUTPUT_DIR, exist_ok=True); documents = []
MakeDirs ==
    /\ pc = "makedirs"
    /\ dirState \in {"absent", "dir"}
    /\ dirState' = "dir"
    /\ documents' = <<>>
    /\ k' = 1
    /\ pc' = "canvas"
    /\ UNCHANGED <<filename, c, console, returned, fs, saved, run, prev, call>>

\* os.makedirs(OUTPUT_DIR) without exist_ok=True: an existing directory raises too
MakeDirsRaisesIfExists ==
    /\ pc = "makedirs"
    /\ dirState \in {"absent", "file", "dir"}
    /\ Aborts
    /\ UNCHANGED <<k, filename, c, documents, console, fs, dirState, saved,
                   run, prev, call>>

\* os.makedirs raises: docs exists and is no directory (FileExistsError), or
\* it is absent and cannot be created (PermissionError, OSError)
MakeDirsRaises ==
    /\ pc = "makedirs"
    /\ dirState \in {"absent", "file"}
    /\ Aborts
    /\ UNCHANGED <<k, filename, c, documents, console, fs, dirState, saved,
                   run, prev, call>>

\* filename = "..."; c = canvas.Canvas(f"{OUTPUT_DIR}/{filename}", pagesize=letter)
NewCanvas ==
    /\ pc = "canvas"
    /\ filename' = Requests[k].filename
    /\ c' = Canvas(PathOf(filename'))
    /\ pc' = "draw"
    /\ UNCHANGED <<k, documents, console, returned, fs, dirState, saved, run,
                   prev, call>>

\* draw_...(c, name, amount, ...)
Draw ==
    /\ pc = "draw"
    /\ c' = Invoke(c, Requests[k].routine, Requests[k].name, Requests[k].amount,
                   Requests[k].keywords)
    /\ pc' = "save"
    /\ UNCHANGED <<k, filename, documents, console, returned, fs, dirState,
                   saved, run, prev, call>>

\* the c.save() line left out: the program goes on, nothing is written
SaveMissing ==
    /\ pc = "save"
    /\ pc' = "print"
    /\ UNCHANGED <<k, filename, c, documents, console, returned, fs, dirState,
                   saved, run, prev, call>>

\* c.save(): the page is written to the canvas's path, replacing what was there
Save ==
    /\ pc = "save"
    /\ fs' = (c.filename :> c.ops) @@ fs
    /\ saved' = Append(saved, c.filename)
    /\ pc' = "print"
    /\ UNCHANGED <<k, filename, c, documents, console, returned, dirState, run,
                   prev, call>>

\* c.save() raises: the file is untouched (open failed) or left truncated
SaveRaises ==
    /\ pc = "save"
    /\ fs' \in { fs, (c.filename :> NoPage) @@ fs }
    /\ Aborts
    /\ UNCHANGED <<k, filename, c, documents, console, dirState, saved, run,
                   prev, call>>

\* print(f"... Created {filename}")
PrintCreated ==
    /\ pc = "print"
    /\ console' = Append(console, [ line |-> "Created", filename |-> filename ])
    /\ pc' = "append"
    /\ UNCHANGED <<k, filename, c, documents, returned, fs, dirState, saved,
                   run, prev, call>>

\* the manifest entry of request i: its literal fields and the filename variable
Entry(i, name) == [ filename |-> name ] @@ Requests[i].fields

\* documents.insert(0, {...}) in place of documents.append({...})
AppendEntryAtFront ==
    /\ pc = "append"
    /\ documents' = <<Entry(k, filename)>> \o documents
    /\ IF k < Len(Requests)
       THEN k' = k + 1 /\ pc' = "canvas"
       ELSE k' = k /\ pc' = "summary"
    /\ UNCHANGED <<filename, c, console, returned, fs, dirState, saved, run,
                   prev, call>>

\* documents.append({...}); then on to the next request
AppendEntry ==
    /\ pc = "append"
    /\ documents' = Append(documents, Entry(k, filename))
    /\ IF k < Len(Requests)
       THEN k' = k + 1 /\ pc' = "canvas"
       ELSE k' = k /\ pc' = "summary"
    /\ UNCHANGED <<filename, c, console, returned, fs, dirState, saved, run,
                   prev, call>>

\* print(f"... Generated {len(documents)} tax documents in {OUTPUT_DIR}/");
\* return documents
Summary ==
    /\ pc = "summary"
    /\ console' = Append(console, [ line |-> "Generated", count |-> Len(documents) ])
    /\ returned' = <<documents>>
    /\ pc' = "done"
    /\ UNCHANGED <<k, filename, c, documents, fs, dirState, saved, run, prev, call>>

\* the canvas constructor, a drawing call or a print raises (MemoryError, an
\* encoding error of the console, ...): no handler, main() is left
Raises ==
    /\ pc \in {"canvas", "draw", "print", "summary"}
    /\ Aborts
    /\ UNCHANGED <<k, filename, c, documents, console, fs, dirState, saved,
                   run, prev, call>>

\* the script is run again on the directory the previous run left
Rerun ==
    /\ pc \in {"done", "aborted"}
    /\ run < MaxRuns
    /\ prev' = [ outcome |-> pc, returned |-> returned, fs |-> fs ]
    /\ run' = run + 1
    /\ pc' = "makedirs"
    /\ k' = 0
    /\ filename' = <<>>
    /\ c' = NoCanvas
    /\ documents' = <<>>
    /\ console' = <<>>
    /\ returned' = <<>>
    /\ saved' = <<>>
    /\ UNCHANGED <<fs, dirState, call>>

Main ==
    \/ MakeDirs \/ MakeDirsRaises \/ NewCanvas \/ Draw \/ Save \/ SaveRaises
    \/ PrintCreated \/ AppendEntry \/ Summary \/ Raises \/ Rerun

(***************************************************************************)
(* A layout routine called directly, on a fresh canvas, with any arguments *)
(***************************************************************************)
Routines == {"draw_w2", "draw_1099nec", "draw_1099int", "draw_1099div", "draw_1098"}

\* counterparty names and amounts (cents) tried; the amounts include the
\* literals of main() and small amounts whose products fall on a half cent
CallNames == { <<>>, Request1.name, Request6.name, Request8.name }
CallAmounts == { 0, 25, 75, 1000, 123400, 567800, 1234500, 4875000, 7543200, 9215000 }
CallYears == { Year2024, <<"2","0","2","3">> }

CallKeywords(routine) ==
    CASE routine = "draw_w2" ->
           [ employee_name : {"John Q. Taxpayer", "Ann Other"},
             employee_ssn : {"XXX-XX-1234", "XXX-XX-0000"},
             ein : {"12-3456789"}, year : CallYears,
             is_blank : BOOLEAN, low_quality : BOOLEAN ]
      [] routine \in {"draw_1099nec", "draw_1099int", "draw_1099div"} ->
           [ recipient_name : {"John Q. Taxpayer", "Ann Other"},
             recipient_tin : {"XXX-XX-1234"},
             payer_tin : {"98-7654321", "00-0000000"}, year : CallYears ]
      [] routine = "draw_1098" ->
           [ borrower_name : {"John Q. Taxpayer", "Ann Other"},
             borrower_tin : {"XXX-XX-1234"},
             lender_tin : {"77-8899001", "00-0000000"}, year : CallYears ]

InitCall ==
    /\ pc = "call"
    /\ \E routine \in Routines :
         call \in [ routine : {routine}, name : CallNames, amount : CallAmounts,
                    keywords : CallKeywords(routine) ]
    /\ c = NoCanvas
    /\ k = 0
    /\ filename = <<>>
    /\ documents = <<>>
    /\ console = <<>>
    /\ returned = <<>>
    /\ saved = <<>>
    /\ run = 1
    /\ prev = NoPrev
    /\ dirState = "absent"
    /\ fs = EmptyDir

\* the routine runs to its end on the canvas it was given
CallRoutine ==
    /\ pc = "call"
    /\ c' = Invoke(c, call.routine, call.name, call.amount, call.keywords)
    /\ pc' = "returned"
    /\ UNCHANGED <<k, filename, documents, console, returned, fs, dirState,
                   saved, run, prev, call>>

Init == InitMain \/ InitCall
Next == Main \/ CallRoutine
Spec == Init /\ [][Next]_vars

(***************************************************************************)
(* Reading a page and a manifest                                           *)
(***************************************************************************)
Range(s) == { s[i] : i \in 1..Len(s) }

\* the strings drawn on a page
Strings(ops) == { o \in Range(ops) : o.op = "drawString" }
\* the value texts drawn on a page, and those of one box printing one argument
Values(ops) == { o \in Strings(ops) : o.role = "value" }
ValuesOf(ops, box, arg) == { o \in Values(ops) : o.box = box /\ o.arg = arg }

\* the request of main() that manifest entry i belongs to is request i
IsBlank(i) == Bound(Requests[i].routine, Requests[i].keywords).is_blank
PageOf(i) == fs[PathOf(documents[i].filename)]

(***************************************************************************)
(* C1: when main() has run to completion, exactly 10 files have been saved *)
(* (ten completed saves, to ten different paths, all present in the output *)
(* directory, which holds 10 files), the returned manifest has exactly 10  *)
(* entries, and no two of its filenames are equal.                         *)
(***************************************************************************)
C1_TenFilesTenEntries ==
    pc = "done" =>
        /\ Len(saved) = 10
        /\ Cardinality(Range(saved)) = 10
        /\ Range(saved) \subseteq DOMAIN fs
        /\ Cardinality(DOMAIN fs) = 10
        /\ Len(returned) = 1
        /\ Len(returned[1]) = 10
        /\ \A i, j \in 1..Len(returned[1]) :
              i # j => returned[1][i].filename # returned[1][j].filename

\* a first run of main() has completed
C1_Witness == pc = "done" /\ run = 1 /\ Len(returned) = 1

(***************************************************************************)
(* C2: in every state of a run of main(), every manifest entry has a       *)
(* filename different from every other entry's, and that filename (under   *)
(* docs/) is a file that this run has saved: it is the i-th completed      *)
(* save, the file exists and holds a drawn page; and the entry appended    *)
(* last names the path of the canvas that was drawn and saved for it,      *)
(* whose page is what the file holds.                                      *)
(***************************************************************************)
C2_ManifestNamesSavedFiles ==
    /\ \A i \in 1..Len(documents) :
          LET p == PathOf(documents[i].filename)
          IN  /\ \A j \in 1..Len(documents) :
                    j # i => documents[j].filename # documents[i].filename
              /\ i <= Len(saved)
              /\ saved[i] = p
              /\ p \in DOMAIN fs
              /\ fs[p] # NoPage
    /\ (Len(documents) > 0 /\ pc \in {"canvas", "summary", "done"}) =>
          /\ c.filename = PathOf(documents[Len(documents)].filename)
          /\ fs[c.filename] = c.ops

\* an entry has been appended and the next canvas is not yet created
C2_Witness == pc = "canvas" /\ Len(documents) = 3 /\ run = 2

(***************************************************************************)
(* C3: a call of draw_w2 with is_blank true draws no value text, whatever  *)
(* the other arguments: every string on the page is the title, one of the  *)
(* eleven captions or one of the two footer lines, next to the border and  *)
(* the seven grid lines; and the manifest entry of the blank W-2 request   *)
(* of main() carries isBlank: true, its file holding no value text.        *)
(***************************************************************************)
OnlyCaptions(ops) ==
    /\ Values(ops) = {}
    /\ \A o \in Strings(ops) : o.role \in {"title", "caption", "footer"}
    /\ { o.box : o \in { x \in Strings(ops) : x.role = "caption" } }
          = {"a", "b", "c", "e", "f", "1", "2", "3", "4", "5", "6"}
    /\ Cardinality({ i \in 1..Len(ops) : ops[i].role = "title" }) = 1
    /\ Cardinality({ i \in 1..Len(ops) : ops[i].role = "footer" }) = 2
    /\ Cardinality({ i \in 1..Len(ops) : ops[i].op = "rect" }) = 1
    /\ Cardinality({ i \in 1..Len(ops) : ops[i].op = "line" }) = 7

C3_BlankDrawsNoValue ==
    /\ (pc = "returned" /\ call.routine = "draw_w2" /\ call.keywords.is_blank) =>
          OnlyCaptions(c.ops)
    /\ \A i \in 1..Len(documents) :
          (Requests[i].routine = "draw_w2" /\ IsBlank(i)) =>
              /\ "isBlank" \in DOMAIN documents[i]
              /\ documents[i].isBlank = TRUE
              /\ OnlyCaptions(PageOf(i))

\* draw_w2 has returned from a blank call given a name, wages and low_quality
C3_Witness ==
    /\ pc = "returned" /\ call.routine = "draw_w2"
    /\ call.keywords.is_blank /\ call.keywords.low_quality
    /\ call.name # <<>> /\ call.amount > 0
    /\ Len(c.ops) > 0

(***************************************************************************)
(* C4: a W-2 rendered with low_quality true (and not blank) has its SSN,   *)
(* employer name and Box 1 wages drawn in lightgrey, gray and lightgrey,   *)
(* each lighter than black, and the manifest entry of such a request of    *)
(* main() carries isLowQuality: true; a request rendered with low_quality  *)
(* false (every 1099 and 1098 among them) has every value drawn in black   *)
(* and its manifest entry carries no isLowQuality.                         *)
(***************************************************************************)
IsLowQuality(routine, keywords) ==
    routine = "draw_w2" /\ Bound(routine, keywords).low_quality
IsBlankCall(routine, keywords) ==
    routine = "draw_w2" /\ Bound(routine, keywords).is_blank

FillsOf(ops, box, arg) == { o.fill : o \in ValuesOf(ops, box, arg) }

Faded(ops) ==
    /\ FillsOf(ops, "a", "employee_ssn") = {"lightgrey"}
    /\ FillsOf(ops, "c", "employer_name") = {"gray"}
    /\ FillsOf(ops, "1", "wages") = {"lightgrey"}
    /\ GreyLevel["lightgrey"] > GreyLevel["black"]
    /\ GreyLevel["gray"] > GreyLevel["black"]

AllBlack(ops) == \A o \in Values(ops) : o.fill = "black"

C4_LowQualityFades ==
    /\ pc = "returned" =>
          /\ (IsLowQuality(call.routine, call.keywords)
                /\ ~IsBlankCall(call.routine, call.keywords)) => Faded(c.ops)
          /\ ~IsLowQuality(call.routine, call.keywords) => AllBlack(c.ops)
    /\ \A i \in 1..Len(documents) :
          LET r == Requests[i]
          IN  IF IsLowQuality(r.routine, r.keywords)
              THEN /\ "isLowQuality" \in DOMAIN documents[i]
                   /\ documents[i].isLowQuality = TRUE
                   /\ ~IsBlankCall(r.routine, r.keywords) => Faded(PageOf(i))
              ELSE /\ "isLowQuality" \notin DOMAIN documents[i]
                   /\ AllBlack(PageOf(i))

\* main() has appended the entry of the low-quality W-2
C4_Witness ==
    /\ Len(documents) = 10
    /\ IsLowQuality(Requests[10].routine, Requests[10].keywords)
    /\ Values(PageOf(10)) # {}

(***************************************************************************)
(* C5: the derived values a routine prints are fixed multiples of the      *)
(* primary amount it was given, rounded to the cent: W-2 Box 2 = 0.22 x    *)
(* wages, Box 4 = 0.062 x wages, Box 6 = 0.0145 x wages, Boxes 3 and 5 =   *)
(* wages; 1099-DIV Box 1b = 0.80 x dividends; 1098 Box 2 = 25 x interest.  *)
(* No routine has a parameter that supplies a derived value.               *)
(***************************************************************************)
TextsOf(ops, box, arg) == { o.text : o \in ValuesOf(ops, box, arg) }

\* p cents is amount * num / den to within half a cent
NearestCent(p, amount, num, den) ==
    LET d == p * den - amount * num
    IN  2 * d <= den /\ 2 * d >= 0 - den

\* exactly one text is printed, the money format of the rounded product
PrintsProduct(texts, amount, num, den) ==
    LET q == (amount * num) \div den
    IN  \E p \in {q, q + 1} :
            NearestCent(p, amount, num, den) /\ texts = { FormatMoney(p) }

DerivedValues(routine, amount, blank, ops) ==
    CASE routine = "draw_w2" ->
           blank \/ /\ PrintsProduct(TextsOf(ops, "2", "fed_tax"), amount, 22, 100)
                    /\ PrintsProduct(TextsOf(ops, "4", "ss_tax"), amount, 62, 1000)
                    /\ PrintsProduct(TextsOf(ops, "6", "med_tax"), amount, 145, 10000)
                    /\ PrintsProduct(TextsOf(ops, "3", "wages"), amount, 1, 1)
                    /\ PrintsProduct(TextsOf(ops, "5", "wages"), amount, 1, 1)
      [] routine = "draw_1099div" ->
           PrintsProduct(TextsOf(ops, "1b", "qualified"), amount, 8, 10)
      [] routine = "draw_1098" ->
           PrintsProduct(TextsOf(ops, "2", "principal"), amount, 25, 1)
      [] OTHER -> TRUE

DerivedNames == {"fed_tax", "ss_tax", "med_tax", "qualified", "principal"}

C5_DerivedValuesAreMultiples ==
    /\ pc = "returned" =>
          /\ DerivedValues(call.routine, call.amount,
                           IsBlankCall(call.routine, call.keywords), c.ops)
          /\ DOMAIN Bound(call.routine, call.keywords) \cap DerivedNames = {}
    /\ \A i \in 1..Len(documents) :
          LET r == Requests[i]
          IN  DerivedValues(r.routine, r.amount,
                            IsBlankCall(r.routine, r.keywords), PageOf(i))

\* draw_w2 has printed the boxes for wages whose Medicare tax is on a half cent
C5_Witness ==
    /\ pc = "returned" /\ call.routine = "draw_w2"
    /\ ~call.keywords.is_blank
    /\ call.amount = 9215000
    /\ TextsOf(c.ops, "6", "med_tax") = {"$1,336.17"}
    /\ TextsOf(c.ops, "2", "fed_tax") = {"$20,273.00"}

(***************************************************************************)
(* C6: each monetary field a manifest entry declares (wages, compensation, *)
(* interest or dividends) is the primary amount passed to the layout       *)
(* routine for the same request, and is what Box 1 (1099-DIV: Box 1a) of   *)
(* the saved page prints; the declared employer, payer or lender name is   *)
(* the counterparty name passed, and is the name the page prints.          *)
(***************************************************************************)
MoneyKeys == {"wages", "compensation", "interest", "dividends"}
NameKeys == {"employer", "payer", "lender"}

NameTexts(ops) ==
    { o.text : o \in { x \in Values(ops) :
                         x.arg \in {"employer_name", "payer_name", "lender_name"} } }

C6_ManifestMatchesRendered ==
    \A i \in 1..Len(documents) :
        LET e == documents[i]
            page == PageOf(i)
        IN  /\ \A key \in MoneyKeys \cap DOMAIN e :
                  /\ e[key] = Requests[i].amount
                  /\ TextsOf(page, "1", key) \cup TextsOf(page, "1a", key)
                        = { FormatMoney(e[key]) }
            /\ \A key \in NameKeys \cap DOMAIN e :
                  /\ e[key] = Requests[i].name
                  /\ NameTexts(page) = { Str(e[key]) }

\* the Acme Corp W-2 is in the manifest with wages 75432.00 and on the page
C6_Witness ==
    /\ Len(documents) >= 2
    /\ documents[1].wages = 7543200
    /\ TextsOf(PageOf(1), "1", "wages") = {"$75,432.00"}
    /\ NameTexts(PageOf(1)) = {"Acme Corp"}
    /\ documents[2].wages = 9215000

(***************************************************************************)
(* Filenames                                                               *)
(***************************************************************************)
UpperCase == <<"A","B","C","D","E","F","G","H","I","J","K","L","M",
               "N","O","P","Q","R","S","T","U","V","W","X","Y","Z">>
LowerCase == <<"a","b","c","d","e","f","g","h","i","j","k","l","m",
               "n","o","p","q","r","s","t","u","v","w","x","y","z">>

\* str.lower() on one character
ToLower(ch) ==
    IF \E i \in 1..26 : UpperCase[i] = ch
    THEN LowerCase[CHOOSE i \in 1..26 : UpperCase[i] = ch]
    ELSE ch

Lowered(s) == [ i \in 1..Len(s) |-> ToLower(s[i]) ]
Without(s, ch) == SelectSeq(s, LAMBDA x : x # ch)
IsPrefix(a, b) == Len(a) <= Len(b) /\ SubSeq(b, 1, Len(a)) = a
IsSuffix(a, b) == Len(a) <= Len(b) /\ SubSeq(b, Len(b) - Len(a) + 1, Len(b)) = a

\* s.split(sep)
RECURSIVE Split(_, _)
Split(s, sep) ==
    IF \A i \in 1..Len(s) : s[i] # sep THEN <<s>>
    ELSE LET i == CHOOSE n \in 1..Len(s) :
                      s[n] = sep /\ \A m \in 1..(n - 1) : s[m] # sep
         IN  <<SubSeq(s, 1, i - 1)>> \o Split(SubSeq(s, i + 1, Len(s)), sep)

DotPdf == <<".","p","d","f">>
\* the '-'-separated segments of a filename before its .pdf
Segments(name) == Split(SubSeq(name, 1, Len(name) - Len(DotPdf)), "-")

\* the type slug: the form type in lower case without its hyphen
TypeSlug(type) == Lowered(Without(type, "-"))
\* a counterparty slug derived from a name: a non-empty prefix of the name
\* in lower case without its spaces
IsNameSlug(slug, name) == slug # <<>> /\ IsPrefix(slug, Lowered(Without(name, " ")))

Chars_blank == <<"b","l","a","n","k">>
Chars_template == <<"t","e","m","p","l","a","t","e">>
Chars_lowquality == <<"l","o","w","q","u","a","l","i","t","y">>
Chars_mortgage == <<"m","o","r","t","g","a","g","e">>

\* the filename of entry i follows <type-slug>-<counterparty-slug>-<year>.pdf
FollowsPattern(i) ==
    LET e == documents[i]
        r == Requests[i]
        segs == Segments(e.filename)
    IN  /\ IsSuffix(DotPdf, e.filename)
        /\ Len(segs) = 3
        /\ segs[1] = TypeSlug(e.type)
        /\ IsNameSlug(segs[2], r.name)
        /\ segs[3] = Bound(r.routine, r.keywords).year

\* the two edge cases: <type-slug>-blank-template.pdf, <type-slug>-lowquality-<year>.pdf
FollowsEdgeCase(i) ==
    LET e == documents[i]
        r == Requests[i]
        segs == Segments(e.filename)
    IN  /\ IsSuffix(DotPdf, e.filename)
        /\ Len(segs) = 3
        /\ segs[1] = TypeSlug(e.type)
        /\ \/ /\ IsBlankCall(r.routine, r.keywords)
              /\ segs[2] = Chars_blank /\ segs[3] = Chars_template
           \/ /\ IsLowQuality(r.routine, r.keywords)
              /\ ~IsBlankCall(r.routine, r.keywords)
              /\ segs[2] = Chars_lowquality
              /\ segs[3] = Bound(r.routine, r.keywords).year

\* the 1098: <type-slug>-mortgage-<year>.pdf, whatever the lender's name
FollowsMortgage(i) ==
    LET e == documents[i]
        r == Requests[i]
        segs == Segments(e.filename)
    IN  /\ r.routine = "draw_1098"
        /\ IsSuffix(DotPdf, e.filename)
        /\ Len(segs) = 3
        /\ segs[1] = TypeSlug(e.type)
        /\ segs[2] = Chars_mortgage
        /\ segs[3] = Bound(r.routine, r.keywords).year

IsEdgeCase(i) ==
    \/ IsBlankCall(Requests[i].routine, Requests[i].keywords)
    \/ IsLowQuality(Requests[i].routine, Requests[i].keywords)

(***************************************************************************)
(* C7 as stated: every output filename is <type-slug>-<counterparty-slug>- *)
(* <year>.pdf, the counterparty slug derived from the name passed to the   *)
(* layout routine and the year the one drawn, except only the blank W-2    *)
(* and the low-quality W-2.                                                *)
(***************************************************************************)
C7_AsStated ==
    \A i \in 1..Len(documents) :
        IF IsEdgeCase(i) THEN FollowsEdgeCase(i) ELSE FollowsPattern(i)

(***************************************************************************)
(* C7 amended: every output filename is <type-slug>-<middle>-<year>.pdf    *)
(* with the type slug of the request's form type and the year drawn on the *)
(* page; the middle segment is a slug of the counterparty name passed to   *)
(* the layout routine (a prefix of the name in lower case without spaces), *)
(* except for the 1098, whose middle segment is "mortgage" and not derived *)
(* from the lender name "Home Loans Inc", the low-quality W-2              *)
(* ("lowquality") and the blank W-2 (<type-slug>-blank-template.pdf).      *)
(***************************************************************************)
C7_PatternButMortgage ==
    \A i \in 1..Len(documents) :
        IF IsEdgeCase(i) THEN FollowsEdgeCase(i)
        ELSE IF Requests[i].routine = "draw_1098" THEN FollowsMortgage(i)
        ELSE FollowsPattern(i)

\* all ten entries are in the manifest, the 1098's among them
C7_Witness ==
    /\ Len(documents) = 10
    /\ documents[8].filename = Request8.filename
    /\ Segments(documents[8].filename)[2] = Chars_mortgage
    /\ Segments(documents[4].filename)[2] = <<"c","o","n","s","u","l","t">>

(***************************************************************************)
(* C8: a second run of main() after a completed first run, on the          *)
(* directory the first run left, does not fail at the directory creation,  *)
(* adds no file (the directory holds the same 10 paths throughout), and,   *)
(* when it completes, returns a manifest equal to the first run's and      *)
(* leaves every file with the same page, derived values included.          *)
(***************************************************************************)
C8_SecondRunIdempotent ==
    prev.outcome = "done" =>
        /\ DOMAIN fs = DOMAIN prev.fs
        /\ Cardinality(DOMAIN fs) = 10
        /\ pc = "aborted" => k >= 1
        /\ pc = "done" =>
              /\ returned = prev.returned
              /\ fs = prev.fs

\* the second run has completed after a completed first run
C8_Witness ==
    /\ pc = "done" /\ run = 2 /\ prev.outcome = "done"
    /\ Len(returned) = 1 /\ Len(saved) = 10

(***************************************************************************)
(* C9: a failure (creating the directory, creating the canvas, drawing,    *)
(* saving or printing for document k) leaves main() at once: the failing   *)
(* step appends no entry, prints nothing and completes no save; once       *)
(* aborted the run takes no further step (no later document, no retry:     *)
(* only a new run of the script follows, and it leaves the files alone     *)
(* until it saves); and main() returns nothing, no partial manifest and    *)
(* no summary line.                                                        *)
(***************************************************************************)
AbortedReturnsNothing ==
    pc = "aborted" =>
        /\ returned = <<>>
        /\ \A i \in 1..Len(console) : console[i].line = "Created"
        /\ Len(documents) <= k
        /\ Len(saved) <= k

C9_FailureAbortsRun ==
    /\ []AbortedReturnsNothing
    /\ [][ /\ (pc # "aborted" /\ pc' = "aborted") =>
                 /\ UNCHANGED <<k, documents, saved, console, run>>
                 /\ returned' = <<>>
           /\ pc = "aborted" =>
                 /\ run' = run + 1
                 /\ pc' = "makedirs"
                 /\ UNCHANGED fs ]_vars

\* document 4 was saved and its progress line failed to print: run aborted
C9_Witness ==
    /\ pc = "aborted" /\ k = 4
    /\ Len(saved) = 4 /\ Len(documents) = 3
    /\ returned = <<>>

(***************************************************************************)
(* C10: documents are processed one after another in the order of the      *)
(* list.  While the canvas of document k is being created, drawn or saved, *)
(* documents 1..k-1 have each been saved, announced and appended, in that  *)
(* order; the manifest, the saves and the progress lines follow the list   *)
(* order; the manifest only grows at its end during a run; and the number  *)
(* of completed saves is the manifest length or one more.                  *)
(***************************************************************************)
InListOrder ==
    /\ \A i \in 1..Len(documents) : documents[i].filename = Requests[i].filename
    /\ \A i \in 1..Len(saved) : saved[i] = PathOf(Requests[i].filename)
    /\ \A i \in 1..Len(console) :
          console[i].line = "Created" => console[i].filename = Requests[i].filename

OneAtATime ==
    /\ Len(saved) \in { Len(documents), Len(documents) + 1 }
    /\ Len(documents) <= Len(console)
    /\ pc \in {"draw", "save"} =>
          /\ c.filename = PathOf(Requests[k].filename)
          /\ Len(documents) = k - 1
          /\ Len(saved) = k - 1
          /\ Len(console) = k - 1
    /\ pc = "canvas" =>
          /\ Len(documents) = k - 1
          /\ Len(saved) = k - 1
          /\ Len(console) = k - 1

C10_OneAfterAnotherInOrder ==
    /\ [](InListOrder /\ OneAtATime)
    /\ [][ run' = run => IsPrefix(documents, documents') ]_vars

\* the canvas of document 5 is being drawn, four documents behind it
C10_Witness ==
    /\ pc = "draw" /\ k = 5
    /\ Len(documents) = 4 /\ Len(saved) = 4 /\ Len(console) = 4
    /\ c.filename = PathOf(Request5.filename)

(***************************************************************************)
(* C11: the low-quality lightening of draw_w2 never leaks.  For every      *)
(* combination of is_blank and low_quality, on a canvas as Canvas() makes  *)
(* it: the title, every caption, the footer and every value other than the *)
(* SSN, the employer name and Box 1 are drawn in black; each lightening    *)
(* setFillColor is followed by a setFillColor(black) (the calls are        *)
(* lightgrey, black, gray, black, lightgrey, black with low_quality, and   *)
(* black, black, black without); the fill colour is black when draw_w2     *)
(* returns; and with is_blank true, low_quality or not, no value is drawn  *)
(* and setFillColor is never called.                                       *)
(***************************************************************************)
Lightened == { <<"a", "employee_ssn">>, <<"c", "employer_name">>, <<"1", "wages">> }

NoLeak(cv, blank, low_quality) ==
    /\ \A o \in Strings(cv.ops) :
          (o.role # "value" \/ <<o.box, o.arg>> \notin Lightened) => o.fill = "black"
    /\ cv.fill = "black"
    /\ cv.fillSets =
          IF blank THEN <<>>
          ELSE IF low_quality
               THEN <<"lightgrey", "black", "gray", "black", "lightgrey", "black">>
               ELSE <<"black", "black", "black">>
    /\ blank => Values(cv.ops) = {}
    /\ ~blank =>
          { <<o.box, o.arg>> : o \in Values(cv.ops) } \ Lightened
             = { <<"b", "ein">>, <<"c", "">>, <<"e", "employee_name">>, <<"f", "">>,
                 <<"2", "fed_tax">>, <<"3", "wages">>, <<"4", "ss_tax">>,
                 <<"5", "wages">>, <<"6", "med_tax">> }

C11_LighteningNeverLeaks ==
    /\ (pc = "returned" /\ call.routine = "draw_w2") =>
          NoLeak(c, call.keywords.is_blank, call.keywords.low_quality)
    /\ (pc = "save" /\ Requests[k].routine = "draw_w2") =>
          NoLeak(c, IsBlankCall(Requests[k].routine, Requests[k].keywords),
                 IsLowQuality(Requests[k].routine, Requests[k].keywords))

\* draw_w2 has returned from a low-quality call that drew the faded values
C11_Witness ==
    /\ pc = "returned" /\ call.routine = "draw_w2"
    /\ call.keywords.low_quality /\ ~call.keywords.is_blank
    /\ FillsOf(c.ops, "c", "employer_name") = {"gray"}
    /\ FillsOf(c.ops, "b", "ein") = {"black"}
    /\ Len(c.fillSets) = 6

====
